---- MODULE Spec2Model ----
(***************************************************************************)
(* Model of ov::pass::SDPAToPagedAttention::run_on_model                   *)
(* (src/src/core/src/pass/sdpa_to_paged_attention.cpp).                    *)
(*                                                                         *)
(* The Graph (ov::Model) is its ordered Parameter list, its set of Sinks,  *)
(* its Result list and the consumer sets of the few nodes the pass wires.  *)
(* A run is followed statement group by statement group through pc.        *)
(***************************************************************************)
EXTENDS Integers, Sequences, FiniteSets, TLC

\* ---------------------------------------------------------------- bounds
MaxRank == 2          \* ranks of input_ids / position_ids in the input Graph
MaxLayers == 2        \* attention layers in the input Graph
MaxExtraSinks == 1    \* Sinks not belonging to any attention layer
MaxPast == 1          \* cache tensors supplied as Parameters in the input
MaxConsumers == 2     \* consumers of input_ids / position_ids in the input

\* ------------------------------------------------------------- variables
VARIABLES
    input,                  \* the Graph as handed to run_on_model (never changes)
    pc,                     \* position inside run_on_model
    ret,                    \* outcome of the call
    parameters,             \* model->get_parameters(), in order
    sinks,                  \* model->get_sinks()
    results,                \* model->get_results()
    consumers,              \* node |-> set of nodes reading its output
    out_shape,              \* output shape of the two Unsqueeze nodes
    max_context_len,        \* line 31
    model_remaining_params, \* lines 32-37
    sliding_window,         \* line 38
    kv_parameters,          \* line 64
    assignes_to_remove,     \* line 65
    parameters_to_remove,   \* line 66
    results_to_remove,      \* line 67
    layer_index,            \* line 81
    registered,             \* passes registered in the ov::pass::Manager
    pass_log                \* passes the Manager has executed, in order

vars == <<input, pc, ret, parameters, sinks, results, consumers, out_shape,
          max_context_len, model_remaining_params, sliding_window,
          kv_parameters, assignes_to_remove, parameters_to_remove,
          results_to_remove, layer_index, registered, pass_log>>

\* --------------------------------------------------------------- helpers
Dyn(r) == [i \in 1..r |-> -1]

\* std::make_shared<v0::Parameter>(element_type, shape); isParam is FALSE
\* only for a node bound to an input name that is not a v0::Parameter.
Parameter(et, shape) ==
    [name |-> "", layer |-> -1, isParam |-> TRUE, shape |-> shape, et |-> et]

\* an unset std::shared_ptr<v0::Parameter>
NullParameter ==
    [name |-> "", layer |-> -1, isParam |-> FALSE, shape |-> <<>>, et |-> ""]

setName(node, name) == [node EXCEPT !.name = name]

SameNode(p, q) == p.name = q.name /\ p.layer = q.layer

\* has_parameter lambda: scan the inputs for the name.
has_parameter(params, name) ==
    \E i \in 1..Len(params) : params[i].name = name

\* model->input(name): index of the first input carrying the name,
\* 0 when there is none (ov::Model::input throws in that case).
InputIndex(params, name) ==
    IF has_parameter(params, name)
    THEN CHOOSE i \in 1..Len(params) :
            /\ params[i].name = name
            /\ \A j \in 1..(i - 1) : params[j].name # name
    ELSE 0

remove_parameter(params, p) == SelectSeq(params, LAMBDA q : ~SameNode(p, q))

add_parameters(params, new) == params \o new

RECURSIVE remove_all(_, _)
remove_all(params, pending) ==
    IF pending = <<>> THEN params
    ELSE remove_all(remove_parameter(params, Head(pending)), Tail(pending))

\* PartialShape{-1} given to set_partial_shape (lines 42, 75) and to the
\* synthesized position_ids (line 71).
RelaxedShape_keepRank2 == <<-1, -1>>
RelaxedShape == <<-1>>

\* Axis constant of the Unsqueeze nodes (lines 44, 78).
UnsqueezeAxis == 1

\* Output shape of v0::Unsqueeze(data, axis) for a non-negative axis.
Unsqueeze(shape, axis) ==
    SubSeq(shape, 1, axis) \o <<1>> \o SubSeq(shape, axis + 1, Len(shape))

\* ov::replace_node(target, replacement): every reader of target other than
\* the replacement itself now reads replacement.
replace_node(cons, target, replacement) ==
    [cons EXCEPT ![replacement] = @ \cup (cons[target] \ {<<replacement, 0>>}),
                 ![target] = @ \cap {<<replacement, 0>>}]

Nodes == {"input_ids", "position_ids", "unsqueezed_input_ids",
          "unsqueezed_position_ids", "prev_max_seq_len", "max_context_len"}

Users(tag, n) == {<<tag, i>> : i \in 1..n}

UBOutcomes == {"segfault", "exception"}

\* ------------------------------------------------------------ input Graphs
InputChoices(name, et, maxRank) ==
    {<<>>, <<[name |-> name, layer |-> -1, isParam |-> FALSE,
              shape |-> Dyn(1), et |-> et]>>}
    \cup {<<setName(Parameter(et, Dyn(r)), name)>> : r \in 1..maxRank}

MaskChoices ==
    {<<>>,
     <<setName(Parameter("i64", Dyn(2)), "attention_mask")>>,
     <<[name |-> "attention_mask", layer |-> -1, isParam |-> FALSE,
        shape |-> Dyn(2), et |-> "i64"]>>}

BeamChoices ==
    {<<>>,
     <<setName(Parameter("i32", Dyn(1)), "beam_idx")>>,
     <<[name |-> "beam_idx", layer |-> -1, isParam |-> FALSE,
        shape |-> Dyn(1), et |-> "i32"]>>}

PastParams(n) ==
    [l \in 1..n |-> [name |-> "past_key_values", layer |-> l, isParam |-> TRUE,
                     shape |-> Dyn(4), et |-> "f32"]]

LayerSinks(n) == {<<k, l>> : k \in {"key", "value"}, l \in 1..n}

InputGraphs ==
    {[parameters |-> ids \o mask \o pos \o beam \o PastParams(np),
      layers |-> nl,
      sinks |-> LayerSinks(nl) \cup Users("other", ne),
      results |-> <<"logits">>,
      users |-> nc] :
        ids \in InputChoices("input_ids", "i64", MaxRank),
        mask \in MaskChoices,
        pos \in InputChoices("position_ids", "i64", MaxRank),
        beam \in BeamChoices,
        np \in 0..MaxPast,
        nl \in 0..MaxLayers,
        ne \in 0..MaxExtraSinks,
        nc \in 1..MaxConsumers}

Init ==
    /\ input \in InputGraphs
    /\ pc = "synthesize"
    /\ ret = "none"
    /\ parameters = input.parameters
    /\ sinks = input.sinks
    /\ results = input.results
    /\ consumers = [n \in Nodes |->
          IF n = "input_ids" /\ has_parameter(input.parameters, "input_ids")
            THEN Users("ids_user", input.users)
          ELSE IF n = "position_ids" /\ has_parameter(input.parameters, "position_ids")
            THEN Users("pos_user", input.users)
          ELSE {}]
    /\ out_shape = [n \in {"unsqueezed_input_ids", "unsqueezed_position_ids"} |-> <<>>]
    /\ max_context_len = NullParameter
    /\ model_remaining_params = <<>>
    /\ sliding_window = -1
    /\ kv_parameters = <<>>
    /\ assignes_to_remove = {}
    /\ parameters_to_remove = <<>>
    /\ results_to_remove = <<>>
    /\ layer_index = 0
    /\ registered = <<>>
    /\ pass_log = <<>>

\* ------------------------------------------------------------------ steps
Finish(r) ==
    /\ pc' = "done"
    /\ ret' = r

\* lines 31-38: Parameter Synthesizer
SynthesizeParameters_threeVectors ==
    /\ pc = "synthesize"
    /\ max_context_len' = setName(Parameter("i32", <<>>), "max_context_len")
    /\ model_remaining_params' =
          <<setName(Parameter("i32", <<-1>>), "context_lens"),
            setName(Parameter("i32", <<-1>>), "subsequence_begins"),
            setName(Parameter("i32", <<-1>>), "block_indices")>>
    /\ sliding_window' = 0
    /\ pc' = "input_ids"
    /\ UNCHANGED <<input, ret, parameters, sinks, results, consumers, out_shape,
                   kv_parameters, assignes_to_remove, parameters_to_remove,
                   results_to_remove, layer_index, registered, pass_log>>
SynthesizeParameters ==
    /\ pc = "synthesize"
    /\ max_context_len' = setName(Parameter("i32", <<>>), "max_context_len")
    /\ model_remaining_params' =
          <<setName(Parameter("i32", <<-1>>), "context_lens"),
            setName(Parameter("i32", <<-1>>), "subsequence_begins"),
            setName(Parameter("i32", <<-1>>), "block_indices"),
            setName(Parameter("i32", <<-1>>), "block_indices_begins")>>
    /\ sliding_window' = 0
    /\ pc' = "input_ids"
    /\ UNCHANGED <<input, ret, parameters, sinks, results, consumers, out_shape,
                   kv_parameters, assignes_to_remove, parameters_to_remove,
                   results_to_remove, layer_index, registered, pass_log>>

\* lines 40-51: token-id adaptation, cur_seq_len and prev_max_seq_len.
\* model->input throws when the name is unknown; a failed dynamic_pointer_cast
\* leaves input_ids_node null and line 42 dereferences it.
AdaptInputIds ==
    /\ pc = "input_ids"
    /\ LET i == InputIndex(parameters, "input_ids") IN
       IF i = 0 THEN
            /\ Finish("exception")
            /\ UNCHANGED <<parameters, consumers, out_shape>>
       ELSE IF ~parameters[i].isParam THEN
            /\ \E r \in UBOutcomes : Finish(r)
            /\ UNCHANGED <<parameters, consumers, out_shape>>
       ELSE
            /\ parameters' = [parameters EXCEPT ![i].shape = RelaxedShape]
            /\ out_shape' = [out_shape EXCEPT !["unsqueezed_input_ids"] =
                                Unsqueeze(RelaxedShape, UnsqueezeAxis)]
            /\ LET wired == [consumers EXCEPT !["input_ids"] =
                                @ \cup {<<"unsqueezed_input_ids", 0>>}]
                   replaced == replace_node(wired, "input_ids", "unsqueezed_input_ids")
               IN consumers' =
                    [replaced EXCEPT
                        !["unsqueezed_input_ids"] = @ \cup {<<"cur_seq_len", 0>>},
                        !["max_context_len"] = @ \cup {<<"prev_max_seq_len", 0>>}]
            /\ pc' = "position_ids"
            /\ ret' = ret
    /\ UNCHANGED <<input, sinks, results, max_context_len, model_remaining_params,
                   sliding_window, kv_parameters, assignes_to_remove,
                   parameters_to_remove, results_to_remove, layer_index,
                   registered, pass_log>>

\* lines 69-81: position-id adaptation
AdaptPositionIds ==
    /\ pc = "position_ids"
    /\ LET wire(cons) ==
             replace_node([cons EXCEPT !["position_ids"] =
                               @ \cup {<<"unsqueezed_position_ids", 0>>}],
                          "position_ids", "unsqueezed_position_ids")
           i == InputIndex(parameters, "position_ids")
       IN
       IF ~has_parameter(parameters, "position_ids") THEN
            /\ parameters' = add_parameters(parameters,
                    <<setName(Parameter("i64", RelaxedShape), "position_ids")>>)
            /\ out_shape' = [out_shape EXCEPT !["unsqueezed_position_ids"] =
                                Unsqueeze(RelaxedShape, UnsqueezeAxis)]
            /\ consumers' = wire(consumers)
            /\ pc' = "register"
            /\ ret' = ret
       ELSE IF ~parameters[i].isParam THEN
            /\ \E r \in UBOutcomes : Finish(r)
            /\ UNCHANGED <<parameters, consumers, out_shape>>
       ELSE
            /\ parameters' = [parameters EXCEPT ![i].shape = RelaxedShape]
            /\ out_shape' = [out_shape EXCEPT !["unsqueezed_position_ids"] =
                                Unsqueeze(RelaxedShape, UnsqueezeAxis)]
            /\ consumers' = wire(consumers)
            /\ pc' = "register"
            /\ ret' = ret
    /\ layer_index' = 0
    /\ UNCHANGED <<input, sinks, results, max_context_len, model_remaining_params,
                   sliding_window, kv_parameters, assignes_to_remove,
                   parameters_to_remove, results_to_remove, registered, pass_log>>

\* lines 85-95: the order of the register_pass calls
RegisteredPasses_swapped ==
    <<"PrevSequenceLengthPattern", "StateManagementPattern",
      "TotalSequenceLengthPattern", "PositionIDsReplacer">>
RegisteredPasses ==
    <<"StateManagementPattern", "PrevSequenceLengthPattern",
      "TotalSequenceLengthPattern", "PositionIDsReplacer">>

\* lines 83-95
RegisterPasses ==
    /\ pc = "register"
    /\ registered' = RegisteredPasses
    /\ pc' = "run_passes"
    /\ UNCHANGED <<input, ret, parameters, sinks, results, consumers, out_shape,
                   max_context_len, model_remaining_params, sliding_window,
                   kv_parameters, assignes_to_remove, parameters_to_remove,
                   results_to_remove, layer_index, pass_log>>

\* line 97, manager.run_passes: the registered passes run one after another
\* in registration order; the Manager does not look at what a pass matched.
NextPass(name) ==
    /\ pc = "run_passes"
    /\ Len(pass_log) < Len(registered)
    /\ registered[Len(pass_log) + 1] = name
    /\ pass_log' = Append(pass_log, name)
    /\ pc' = IF Len(pass_log) + 1 = Len(registered) THEN "beam_idx" ELSE "run_passes"

\* The per-layer KV Parameters the state-management sub-pass creates.
KVPair(idx) ==
    <<[name |-> "key_cache.", layer |-> idx, isParam |-> TRUE,
       shape |-> Dyn(4), et |-> "undefined"],
      [name |-> "value_cache.", layer |-> idx, isParam |-> TRUE,
       shape |-> Dyn(4), et |-> "undefined"]>>

RECURSIVE KVPairs(_, _)
KVPairs(from, n) ==
    IF n = 0 THEN <<>> ELSE KVPair(from) \o KVPairs(from + 1, n - 1)

\* StateManagementPattern: best-effort match of each attention layer; a
\* matched layer gets a key/value Parameter pair named after the running
\* layer counter, its cache inputs are queued for removal.
RunStateManagementPattern ==
    /\ NextPass("StateManagementPattern")
    /\ \E matched \in SUBSET (1..input.layers) :
        /\ kv_parameters' = kv_parameters \o KVPairs(layer_index, Cardinality(matched))
        /\ layer_index' = layer_index + Cardinality(matched)
        /\ parameters_to_remove' = parameters_to_remove \o
              SelectSeq(parameters,
                        LAMBDA p : p.name = "past_key_values" /\ p.layer \in matched)
        /\ assignes_to_remove' = assignes_to_remove \cup
              {s \in sinks : s[1] \in {"key", "value"} /\ s[2] \in matched}
        /\ consumers' = [consumers EXCEPT !["max_context_len"] =
                            @ \cup {<<"PagedAttentionExtension", l>> : l \in matched}]
    /\ UNCHANGED <<input, ret, parameters, sinks, results, out_shape,
                   max_context_len, model_remaining_params, sliding_window,
                   results_to_remove, registered>>

\* PrevSequenceLengthPattern(prev_max_seq_len)
RunPrevSequenceLengthPattern ==
    /\ NextPass("PrevSequenceLengthPattern")
    /\ \E n \in 0..1 :
        consumers' = [consumers EXCEPT !["prev_max_seq_len"] =
                         @ \cup Users("prev_seq_len_user", n)]
    /\ UNCHANGED <<input, ret, parameters, sinks, results, out_shape,
                   max_context_len, model_remaining_params, sliding_window,
                   kv_parameters, assignes_to_remove, parameters_to_remove,
                   results_to_remove, layer_index, registered>>

\* TotalSequenceLengthPattern(max_context_len)
RunTotalSequenceLengthPattern ==
    /\ NextPass("TotalSequenceLengthPattern")
    /\ \E n \in 0..1 :
        consumers' = [consumers EXCEPT !["max_context_len"] =
                         @ \cup Users("total_seq_len_user", n)]
    /\ UNCHANGED <<input, ret, parameters, sinks, results, out_shape,
                   max_context_len, model_remaining_params, sliding_window,
                   kv_parameters, assignes_to_remove, parameters_to_remove,
                   results_to_remove, layer_index, registered>>

\* PositionIDsReplacer(unsqueezed_position_ids)
RunPositionIDsReplacer ==
    /\ NextPass("PositionIDsReplacer")
    /\ \E n \in 0..1 :
        consumers' = [consumers EXCEPT !["unsqueezed_position_ids"] =
                         @ \cup Users("position_ids_user", n)]
    /\ UNCHANGED <<input, ret, parameters, sinks, results, out_shape,
                   max_context_len, model_remaining_params, sliding_window,
                   kv_parameters, assignes_to_remove, parameters_to_remove,
                   results_to_remove, layer_index, registered>>

\* lines 99-106
RemoveBeamIdx_keep ==
    /\ pc = "beam_idx"
    /\ pc' = "attention_mask"
    /\ UNCHANGED <<input, ret, parameters, sinks, results, consumers, out_shape,
                   max_context_len, model_remaining_params, sliding_window,
                   kv_parameters, assignes_to_remove, parameters_to_remove,
                   results_to_remove, layer_index, registered, pass_log>>
RemoveBeamIdx ==
    /\ pc = "beam_idx"
    /\ IF has_parameter(parameters, "beam_idx") THEN
          LET p == parameters[InputIndex(parameters, "beam_idx")] IN
          IF p.isParam THEN
               /\ parameters' = remove_parameter(parameters, p)
               /\ pc' = "attention_mask"
               /\ ret' = ret
          ELSE
               /\ Finish("false")
               /\ UNCHANGED parameters
       ELSE
          /\ pc' = "attention_mask"
          /\ UNCHANGED <<ret, parameters>>
    /\ UNCHANGED <<input, sinks, results, consumers, out_shape,
                   max_context_len, model_remaining_params, sliding_window,
                   kv_parameters, assignes_to_remove, parameters_to_remove,
                   results_to_remove, layer_index, registered, pass_log>>

\* lines 108-113; the lookup is not guarded by has_parameter.
RemoveAttentionMask_ignoreCast ==
    /\ pc = "attention_mask"
    /\ LET i == InputIndex(parameters, "attention_mask") IN
       IF i = 0 THEN
            /\ Finish("exception")
            /\ UNCHANGED parameters
       ELSE
            /\ parameters' = remove_parameter(parameters, parameters[i])
            /\ pc' = "pending"
            /\ ret' = ret
    /\ UNCHANGED <<input, sinks, results, consumers, out_shape,
                   max_context_len, model_remaining_params, sliding_window,
                   kv_parameters, assignes_to_remove, parameters_to_remove,
                   results_to_remove, layer_index, registered, pass_log>>
RemoveAttentionMask ==
    /\ pc = "attention_mask"
    /\ LET i == InputIndex(parameters, "attention_mask") IN
       IF i = 0 THEN
            /\ Finish("exception")
            /\ UNCHANGED parameters
       ELSE IF parameters[i].isParam THEN
            /\ parameters' = remove_parameter(parameters, parameters[i])
            /\ pc' = "pending"
            /\ ret' = ret
       ELSE
            /\ Finish("false")
            /\ UNCHANGED parameters
    /\ UNCHANGED <<input, sinks, results, consumers, out_shape,
                   max_context_len, model_remaining_params, sliding_window,
                   kv_parameters, assignes_to_remove, parameters_to_remove,
                   results_to_remove, layer_index, registered, pass_log>>

\* lines 115-117
RemovePendingParameters ==
    /\ pc = "pending"
    /\ parameters' = remove_all(parameters, parameters_to_remove)
    /\ pc' = "sinks"
    /\ UNCHANGED <<input, ret, sinks, results, consumers, out_shape,
                   max_context_len, model_remaining_params, sliding_window,
                   kv_parameters, assignes_to_remove, parameters_to_remove,
                   results_to_remove, layer_index, registered, pass_log>>

\* lines 121-125: every Sink of the model goes, tracked or not.
RemoveSinks_onlyTracked ==
    /\ pc = "sinks"
    /\ sinks' = sinks \ assignes_to_remove
    /\ pc' = "results"
    /\ UNCHANGED <<input, ret, parameters, results, consumers, out_shape,
                   max_context_len, model_remaining_params, sliding_window,
                   kv_parameters, assignes_to_remove, parameters_to_remove,
                   results_to_remove, layer_index, registered, pass_log>>
RemoveSinks ==
    /\ pc = "sinks"
    /\ sinks' = sinks \ sinks
    /\ pc' = "results"
    /\ UNCHANGED <<input, ret, parameters, results, consumers, out_shape,
                   max_context_len, model_remaining_params, sliding_window,
                   kv_parameters, assignes_to_remove, parameters_to_remove,
                   results_to_remove, layer_index, registered, pass_log>>

\* lines 127-129: results_to_remove is handed to no sub-pass and stays empty.
RemoveResults ==
    /\ pc = "results"
    /\ results' = SelectSeq(results,
                      LAMBDA r : \A k \in 1..Len(results_to_remove) :
                                      results_to_remove[k] # r)
    /\ pc' = "append"
    /\ UNCHANGED <<input, ret, parameters, sinks, consumers, out_shape,
                   max_context_len, model_remaining_params, sliding_window,
                   kv_parameters, assignes_to_remove, parameters_to_remove,
                   results_to_remove, layer_index, registered, pass_log>>

\* lines 131-134
AppendParameters_scalarFirst ==
    /\ pc = "append"
    /\ parameters' =
          add_parameters(
            add_parameters(add_parameters(parameters, kv_parameters),
                           <<max_context_len>>),
            model_remaining_params)
    /\ Finish("true")
    /\ UNCHANGED <<input, sinks, results, consumers, out_shape,
                   max_context_len, model_remaining_params, sliding_window,
                   kv_parameters, assignes_to_remove, parameters_to_remove,
                   results_to_remove, layer_index, registered, pass_log>>
AppendParameters_dropValue ==
    /\ pc = "append"
    /\ parameters' =
          add_parameters(
            add_parameters(
              add_parameters(parameters,
                  SelectSeq(kv_parameters, LAMBDA p : p.name = "key_cache.")),
              model_remaining_params),
            <<max_context_len>>)
    /\ Finish("true")
    /\ UNCHANGED <<input, sinks, results, consumers, out_shape,
                   max_context_len, model_remaining_params, sliding_window,
                   kv_parameters, assignes_to_remove, parameters_to_remove,
                   results_to_remove, layer_index, registered, pass_log>>
AppendParameters ==
    /\ pc = "append"
    /\ parameters' =
          add_parameters(
            add_parameters(add_parameters(parameters, kv_parameters),
                           model_remaining_params),
            <<max_context_len>>)
    /\ Finish("true")
    /\ UNCHANGED <<input, sinks, results, consumers, out_shape,
                   max_context_len, model_remaining_params, sliding_window,
                   kv_parameters, assignes_to_remove, parameters_to_remove,
                   results_to_remove, layer_index, registered, pass_log>>

Next ==
    \/ SynthesizeParameters
    \/ AdaptInputIds
    \/ AdaptPositionIds
    \/ RegisterPasses
    \/ RunStateManagementPattern
    \/ RunPrevSequenceLengthPattern
    \/ RunTotalSequenceLengthPattern
    \/ RunPositionIDsReplacer
    \/ RemoveBeamIdx
    \/ RemoveAttentionMask
    \/ RemovePendingParameters
    \/ RemoveSinks
    \/ RemoveResults
    \/ AppendParameters

Spec == Init /\ [][Next]_vars

\* ================================================================= claims
Success == pc = "done" /\ ret = "true"

Named(params, name) == {i \in 1..Len(params) : params[i].name = name}

IsTrueParameter(params, name) ==
    /\ has_parameter(params, name)
    /\ params[InputIndex(params, name)].isParam

\* Inputs on which the run gets past both Input Adapter steps.
AdaptableInput ==
    /\ IsTrueParameter(input.parameters, "input_ids")
    /\ has_parameter(input.parameters, "position_ids")
          => IsTrueParameter(input.parameters, "position_ids")

SynthesizedNames ==
    {"key_cache.", "value_cache.", "context_lens", "subsequence_begins",
     "block_indices", "block_indices_begins", "max_context_len"}

IsPrefix(s, t) == Len(s) <= Len(t) /\ SubSeq(t, 1, Len(s)) = s

\* C1: after a successful run the Parameter list ends with the per-layer KV
\* Parameters in insertion order (key_cache.0, value_cache.0, key_cache.1,
\* ...), then context_lens, subsequence_begins, block_indices,
\* block_indices_begins, then max_context_len as the very last entry, and
\* every entry before that tail is a Parameter the list held already.
C1_AppendOrder ==
    Success =>
        LET n == Len(parameters)
            k == Len(kv_parameters)
            base == n - 5 - k
        IN  /\ base >= 0
            /\ k = 2 * layer_index
            /\ \A j \in 0..(layer_index - 1) :
                  /\ parameters[base + 2 * j + 1].name = "key_cache."
                  /\ parameters[base + 2 * j + 1].layer = j
                  /\ parameters[base + 2 * j + 2].name = "value_cache."
                  /\ parameters[base + 2 * j + 2].layer = j
            /\ parameters[n - 4].name = "context_lens"
            /\ parameters[n - 3].name = "subsequence_begins"
            /\ parameters[n - 2].name = "block_indices"
            /\ parameters[n - 1].name = "block_indices_begins"
            /\ parameters[n].name = "max_context_len"
            /\ parameters[n].shape = <<>>
            /\ \A i \in 1..base : parameters[i].name \notin SynthesizedNames

C1_Witness ==
    /\ Success
    /\ Len(kv_parameters) = 4
    /\ has_parameter(input.parameters, "position_ids")
    /\ Named(parameters, "input_ids") = {1}
    /\ Named(parameters, "position_ids") = {2}

\* C2: a run that returns success leaves the Graph without any Sink,
\* whatever Sinks the input had and whether or not a sub-pass tracked them.
C2_NoSinks == Success => sinks = {}

C2_Witness ==
    /\ Success
    /\ input.sinks # {}
    /\ assignes_to_remove # input.sinks

\* C3: after a successful run no Parameter is named attention_mask or
\* beam_idx, and a Graph without a beam_idx input still succeeds when its
\* other named inputs are true Parameters.
C3_MandatoryRemoval ==
    /\ Success =>
          /\ Named(parameters, "attention_mask") = {}
          /\ Named(parameters, "beam_idx") = {}
    /\ ( /\ pc = "done"
         /\ ~has_parameter(input.parameters, "beam_idx")
         /\ AdaptableInput
         /\ IsTrueParameter(input.parameters, "attention_mask") )
          => ret = "true"

C3_Witness ==
    /\ Success
    /\ has_parameter(input.parameters, "beam_idx")
    /\ has_parameter(input.parameters, "attention_mask")

MaskNotParameter ==
    /\ has_parameter(input.parameters, "attention_mask")
    /\ ~IsTrueParameter(input.parameters, "attention_mask")

\* C4 as stated: with attention_mask bound to a non-Parameter node, no
\* step of the run makes the Parameter list longer.
C4_NothingAppended ==
    [][(MaskNotParameter /\ AdaptableInput)
          => Len(parameters') <= Len(parameters)]_vars

\* C4 amended: with attention_mask bound to a non-Parameter node the run
\* returns failure without the Finalizer's append: no KV, scheduling or
\* max_context_len Parameter ever enters the list, and the list grows by at
\* most the position_ids Parameter the Input Adapter adds when the input
\* Graph has none.
C4_NoFinalizerAppend ==
    (MaskNotParameter /\ AdaptableInput) =>
        /\ pc = "done" => ret = "false"
        /\ \A i \in 1..Len(parameters) : parameters[i].name \notin SynthesizedNames
        /\ Len(parameters) <= Len(input.parameters) +
              (IF has_parameter(input.parameters, "position_ids") THEN 0 ELSE 1)

C4_Witness ==
    /\ MaskNotParameter
    /\ pc = "done"
    /\ ret = "false"
    /\ ~has_parameter(input.parameters, "position_ids")
    /\ has_parameter(parameters, "position_ids")
    /\ ~has_parameter(input.parameters, "beam_idx")

\* C5: a Graph with no input named attention_mask makes run_on_model
\* return false.
C5_AbsentMaskReturnsFalse ==
    ( /\ pc = "done"
      /\ AdaptableInput
      /\ ~has_parameter(input.parameters, "attention_mask") )
        => ret = "false"

\* C6: when input_ids does not resolve to a Parameter node, run_on_model
\* returns false.
C6_BadInputIdsReturnsFalse ==
    (pc = "done" /\ ~IsTrueParameter(input.parameters, "input_ids"))
        => ret = "false"

KVCount == Cardinality(Named(parameters, "key_cache."))
              + Cardinality(Named(parameters, "value_cache."))

\* C7 as stated: a successful run appends twice as many KV Parameters as
\* the input Graph has attention layers, matched or not.
C7_TwicePerInputLayer == Success => KVCount = 2 * input.layers

\* C7 amended: a successful run appends one key and one value Parameter
\* per attention layer the state-management sub-pass matched, twice the
\* final layer counter in all.
C7_TwicePerMatchedLayer ==
    Success =>
        /\ KVCount = 2 * layer_index
        /\ Cardinality(Named(parameters, "key_cache.")) = layer_index
        /\ Cardinality(Named(parameters, "value_cache.")) = layer_index
        /\ layer_index <= input.layers

C7_Witness ==
    /\ Success
    /\ layer_index >= 1
    /\ layer_index < input.layers

EndToEndScenario ==
    /\ input.parameters =
          <<setName(Parameter("i64", <<-1>>), "input_ids"),
            setName(Parameter("i64", <<-1, -1>>), "attention_mask"),
            setName(Parameter("i32", <<-1>>), "beam_idx")>>
    /\ input.layers = 2
    /\ input.sinks = {<<"key", 1>>, <<"value", 1>>, <<"key", 2>>, <<"value", 2>>}
    /\ layer_index = 2

\* C8 as stated: the end-to-end scenario ends with 13 Parameters and no Sink.
C8_Size13 ==
    (Success /\ EndToEndScenario) => (Len(parameters) = 13 /\ sinks = {})

\* C8 amended: the end-to-end scenario ends with 11 Parameters (input_ids,
\* position_ids, four KV, four scheduling vectors, max_context_len) and no
\* Sink.
C8_Size11 ==
    (Success /\ EndToEndScenario) => (Len(parameters) = 11 /\ sinks = {})

C8_Witness == Success /\ EndToEndScenario

InputRank(name) ==
    Len(input.parameters[InputIndex(input.parameters, name)].shape)

AdaptedBoth ==
    /\ out_shape["unsqueezed_input_ids"] # <<>>
    /\ out_shape["unsqueezed_position_ids"] # <<>>

\* C9 as stated: the adapted input_ids and position_ids have the rank of
\* the original Parameter plus one, with a trailing dimension of 1.
C9_OriginalRankPlusOne ==
    AdaptedBoth =>
        /\ Len(out_shape["unsqueezed_input_ids"]) = InputRank("input_ids") + 1
        /\ out_shape["unsqueezed_input_ids"][InputRank("input_ids") + 1] = 1
        /\ has_parameter(input.parameters, "position_ids") =>
              /\ Len(out_shape["unsqueezed_position_ids"]) = InputRank("position_ids") + 1
              /\ out_shape["unsqueezed_position_ids"][InputRank("position_ids") + 1] = 1

\* C9 amended: the adapted input_ids and position_ids have shape
\* [dynamic, 1] whatever rank the original Parameter had, the Parameter
\* itself has shape [dynamic], every former consumer of the Parameter reads
\* the expanded tensor and the expansion node alone reads the Parameter.
C9_DynamicByOne ==
    AdaptedBoth =>
        /\ out_shape["unsqueezed_input_ids"] = <<-1, 1>>
        /\ out_shape["unsqueezed_position_ids"] = <<-1, 1>>
        /\ \A i \in 1..Len(parameters) :
              parameters[i].name \in {"input_ids", "position_ids"}
                 => parameters[i].shape = <<-1>>
        /\ Users("ids_user", input.users) \subseteq consumers["unsqueezed_input_ids"]
        /\ consumers["input_ids"] = {<<"unsqueezed_input_ids", 0>>}
        /\ has_parameter(input.parameters, "position_ids")
              => Users("pos_user", input.users) \subseteq consumers["unsqueezed_position_ids"]
        /\ consumers["position_ids"] = {<<"unsqueezed_position_ids", 0>>}

C9_Witness ==
    /\ AdaptedBoth
    /\ InputRank("input_ids") = 2
    /\ has_parameter(input.parameters, "position_ids")
    /\ InputRank("position_ids") = 2
    /\ input.users = 2

PassOrder ==
    <<"StateManagementPattern", "PrevSequenceLengthPattern",
      "TotalSequenceLengthPattern", "PositionIDsReplacer">>

FinalizerReached ==
    \/ pc \in {"beam_idx", "attention_mask", "pending", "sinks", "results", "append"}
    \/ pc = "done" /\ ret \in {"true", "false"}

\* C10: the Manager runs the four sub-passes once each in the order
\* state-management, previous-sequence-length, total-sequence-length,
\* position-id redirection, whatever they match; the Finalizer is reached
\* only after all four, and until then no Parameter has been removed, no
\* Sink has been removed and nothing synthesized is in the Parameter list.
C10_PassOrder ==
    /\ IsPrefix(pass_log, PassOrder)
    /\ FinalizerReached => pass_log = PassOrder
    /\ pass_log # PassOrder =>
          /\ sinks = input.sinks
          /\ results = input.results
          /\ \A i \in 1..Len(input.parameters) :
                \E j \in 1..Len(parameters) :
                    SameNode(input.parameters[i], parameters[j])
          /\ \A j \in 1..Len(parameters) :
                parameters[j].name \notin SynthesizedNames

C10_Witness ==
    /\ Success
    /\ input.layers > 0
    /\ layer_index = 0
    /\ consumers["prev_max_seq_len"] = {}
    /\ pass_log = PassOrder

====
